---- MODULE Spec2Model ----
(***************************************************************************)
(* Calendar booking agent (src/Task/backend/backend.py): the mock          *)
(* calendar, the text understanding functions, the booking workflow and    *)
(* the HTTP handlers that drive them.                                      *)
(*                                                                         *)
(* Time is counted in minutes from Monday 2025-06-02 00:00 local time, so  *)
(* that weekday(), hour, isoformat() and strftime() can be computed.       *)
(***************************************************************************)
EXTENDS Integers, Sequences, FiniteSets, TLC

VARIABLES
    now,            \* datetime.now(): the wall clock of the process
    appointments,   \* calendar.appointments
    conversations,  \* the module-level dict conversations
    reply,          \* the HTTP response of the last request served
    debug,          \* the last "DEBUG: Intent determined" line printed
    threads,        \* requests in flight: their worker thread's position
    probe           \* a direct call of one of the pure functions

vars == <<now, appointments, conversations, reply, debug, threads, probe>>

----------------------------------------------------------------------------
(* Bounds of the model *)

\* messages one conversation may send
MaxTurns == 4
\* requests that may be in flight at once
MaxInFlight == 2
\* appointments of a probed appointment list
MaxProbeAppts == 2

----------------------------------------------------------------------------
(* datetime arithmetic *)

MinutesPerHour == 60
HoursPerDay == 24
DaysPerWeek == 7
MinutesPerDay == MinutesPerHour * HoursPerDay

\* timedelta(days=d, hours=h)
timedelta(d, h) == d * MinutesPerDay + h * MinutesPerHour

DateOf(t) == t \div MinutesPerDay
hour(t) == (t % MinutesPerDay) \div MinutesPerHour
minute(t) == t % MinutesPerHour
\* datetime.weekday(): Monday is 0
weekday(t) == DateOf(t) % DaysPerWeek
\* datetime.replace(hour=h, minute=0, second=0, microsecond=0)
ReplaceHour(t, h) == DateOf(t) * MinutesPerDay + h * MinutesPerHour

Min(a, b) == IF a < b THEN a ELSE b

Digits == <<"0", "1", "2", "3", "4", "5", "6", "7", "8", "9">>
TwoDigits(n) == Digits[(n \div 10) + 1] \o Digits[(n % 10) + 1]
DigitValue(ch) == (CHOOSE i \in 1..10 : Digits[i] = ch) - 1
DigitSet == {Digits[i] : i \in 1..10}
IsDigit(ch) == ch \in DigitSet

\* the calendar date of day number d (day 0 is Monday 2025-06-02)
DaysInJune == 30
FirstDayOfMonth == 2
MonthNumber(d) == IF d + FirstDayOfMonth <= DaysInJune THEN 6 ELSE 7
MonthName(d) == IF MonthNumber(d) = 6 THEN "June" ELSE "July"
DayOfMonth(d) ==
    IF d + FirstDayOfMonth <= DaysInJune
    THEN d + FirstDayOfMonth
    ELSE d + FirstDayOfMonth - DaysInJune
DateNumber(month, day) ==
    IF month = 6 THEN day - FirstDayOfMonth ELSE day + DaysInJune - FirstDayOfMonth

WeekdayNames ==
    <<"Monday", "Tuesday", "Wednesday", "Thursday", "Friday", "Saturday", "Sunday">>

\* datetime.isoformat(): "2025-06-10T09:00:00"
isoformat(t) ==
    "2025-" \o TwoDigits(MonthNumber(DateOf(t))) \o "-"
        \o TwoDigits(DayOfMonth(DateOf(t))) \o "T"
        \o TwoDigits(hour(t)) \o ":" \o TwoDigits(minute(t)) \o ":00"

TwoDigitsAt(s, i) == 10 * DigitValue(SubSeq(s, i, i)) + DigitValue(SubSeq(s, i + 1, i + 1))

\* datetime.fromisoformat() of a string isoformat() wrote
fromisoformat(s) ==
    DateNumber(TwoDigitsAt(s, 6), TwoDigitsAt(s, 9)) * MinutesPerDay
        + TwoDigitsAt(s, 12) * MinutesPerHour + TwoDigitsAt(s, 15)

\* %I: the hour on a 12-hour clock
Hour12(t) == IF hour(t) % 12 = 0 THEN 12 ELSE hour(t) % 12

\* strftime("%A, %B %d at %I:%M %p"): "Tuesday, June 10 at 09:00 AM"
strftime(t) ==
    WeekdayNames[weekday(t) + 1] \o ", " \o MonthName(DateOf(t)) \o " "
        \o TwoDigits(DayOfMonth(DateOf(t))) \o " at "
        \o TwoDigits(Hour12(t)) \o ":" \o TwoDigits(minute(t))
        \o (IF hour(t) < 12 THEN " AM" ELSE " PM")

----------------------------------------------------------------------------
(* MockCalendar *)

OpenHour == 9
CloseHour == 17
BusinessDays == 5
MaxSlots == 10

\* the appointments MockCalendar.__init__ creates when the module is loaded at t
InitialAppointments(t) ==
    << [id |-> "1", title |-> "Team Meeting",
        start |-> t + timedelta(1, 2), end |-> t + timedelta(1, 3)],
       [id |-> "2", title |-> "Client Call",
        start |-> t + timedelta(2, 4), end |-> t + timedelta(2, 5)] >>

\* the dict get_availability appends for the hour starting at current
Slot(current) ==
    [start |-> isoformat(current),
     end |-> isoformat(current + timedelta(0, 1)),
     formatted |-> strftime(current),
     datetime_start |-> current,
     datetime_end |-> current + timedelta(0, 1)]

\* Slot, tabulated for the full hours of the first three weeks
SlotAt == [t \in {timedelta(0, h) : h \in 0..(3 * DaysPerWeek * HoursPerDay)} |-> Slot(t)]
SlotFor(current) == IF current \in DOMAIN SlotAt THEN SlotAt[current] ELSE Slot(current)

\* the inner loop, had it compared the start times only
ConflictOnSameStart(current, appts) ==
    \E i \in 1..Len(appts) : current = appts[i].start

\* the inner loop of get_availability: some appointment overlaps the hour
Conflict(current, appts) ==
    \E i \in 1..Len(appts) :
        current < appts[i].end /\ current + timedelta(0, 1) > appts[i].start

InBusinessHours(current) ==
    OpenHour <= hour(current) /\ hour(current) < CloseHour
        /\ weekday(current) < BusinessDays

\* the number of times the while loop of get_availability runs
Iterations(start_date, end_date) ==
    IF start_date < end_date
    THEN (end_date - start_date + MinutesPerHour - 1) \div MinutesPerHour
    ELSE 0

\* what iterations first..last of the while loop append, in order (the loop is
\* unrolled by halving, which keeps the evaluation shallow)
RECURSIVE ScanFrom(_, _, _, _)
ScanFrom(start_date, first, last, appts) ==
    IF first > last THEN <<>>
    ELSE IF first = last
    THEN LET current == start_date + timedelta(0, first - 1)
         IN IF InBusinessHours(current) /\ ~Conflict(current, appts)
            THEN <<SlotFor(current)>>
            ELSE <<>>
    ELSE LET middle == (first + last) \div 2
         IN ScanFrom(start_date, first, middle, appts)
                \o ScanFrom(start_date, middle + 1, last, appts)

\* get_availability, had it returned the last ten slots it found
AvailabilityFromTheEnd(start_date, end_date, appts) ==
    LET available_slots ==
            ScanFrom(start_date, 1, Iterations(start_date, end_date), appts)
    IN SubSeq(available_slots, Len(available_slots) - Min(MaxSlots, Len(available_slots)) + 1,
              Len(available_slots))

get_availability(start_date, end_date, appts) ==
    LET available_slots ==
            ScanFrom(start_date, 1, Iterations(start_date, end_date), appts)
    IN SubSeq(available_slots, 1, Min(MaxSlots, Len(available_slots)))

\* the scan of a list that other threads change meanwhile: the iterations
\* ahead of iteration at meet the list as it was (before), those after it the
\* list as it is (after), and iteration at itself meets during
RacedScan(start_date, end_date, before, during, after, at) ==
    LET available_slots ==
            ScanFrom(start_date, 1, at - 1, before)
                \o ScanFrom(start_date, at, at, during)
                \o ScanFrom(start_date, at + 1, Iterations(start_date, end_date), after)
    IN SubSeq(available_slots, 1, Min(MaxSlots, Len(available_slots)))

Str(n) == IF n < 10 THEN Digits[n + 1] ELSE TwoDigits(n)

\* the dict book_appointment builds
NewAppointment(appts, title, start, duration_hours) ==
    [id |-> Str(Len(appts) + 1), title |-> title,
     start |-> start, end |-> start + timedelta(0, duration_hours)]

book_appointment(appts, title, start, duration_hours) ==
    Append(appts, NewAppointment(appts, title, start, duration_hours))

----------------------------------------------------------------------------
(* str methods and re.search *)

UpperCase == "ABCDEFGHIJKLMNOPQRSTUVWXYZ"
LowerCase == "abcdefghijklmnopqrstuvwxyz"
Whitespace == {" ", "\t", "\n", "\r"}

CharAt(s, i) == SubSeq(s, i, i)

\* the lower-case letter of each upper-case letter
LowerOf ==
    [ch \in {CharAt(UpperCase, i) : i \in 1..Len(UpperCase)} |->
        CharAt(LowerCase, CHOOSE i \in 1..Len(UpperCase) : CharAt(UpperCase, i) = ch)]

LowerChar(ch) == IF ch \in DOMAIN LowerOf THEN LowerOf[ch] ELSE ch

\* str.lower(): each character in lower case (the string is split in halves,
\* which keeps the evaluation shallow)
RECURSIVE lower(_)
lower(s) ==
    IF Len(s) = 0 THEN ""
    ELSE IF Len(s) = 1 THEN LowerChar(s)
    ELSE lower(SubSeq(s, 1, Len(s) \div 2)) \o lower(SubSeq(s, (Len(s) \div 2) + 1, Len(s)))

\* str.title() of a lower-case word: its first letter in upper case
UpperChar(ch) ==
    IF \E i \in 1..Len(LowerCase) : CharAt(LowerCase, i) = ch
    THEN CharAt(UpperCase, CHOOSE i \in 1..Len(LowerCase) : CharAt(LowerCase, i) = ch)
    ELSE ch
title(s) == IF Len(s) = 0 THEN "" ELSE UpperChar(CharAt(s, 1)) \o SubSeq(s, 2, Len(s))

\* str.strip(): without leading and trailing whitespace
Blank(s, i) == CharAt(s, i) \in Whitespace

strip(s) ==
    IF \A i \in 1..Len(s) : Blank(s, i) THEN ""
    ELSE SubSeq(s, CHOOSE i \in 1..Len(s) : ~Blank(s, i) /\ \A j \in 1..(i - 1) : Blank(s, j),
                   CHOOSE i \in 1..Len(s) : ~Blank(s, i) /\ \A j \in (i + 1)..Len(s) : Blank(s, j))

\* text has word at index i
WordAt(text, i, word) ==
    i + Len(word) - 1 <= Len(text) /\ SubSeq(text, i, i + Len(word) - 1) = word

\* word in text: text has word as a substring
Contains(text, word) == \E i \in 1..(Len(text) - Len(word) + 1) : WordAt(text, i, word)

\* the indices of text at which one of the words can start: those that hold
\* the first character of one of them
HeadPositions(text, words) ==
    LET heads == {CharAt(words[k], 1) : k \in 1..Len(words)}
    IN {i \in 1..Len(text) : CharAt(text, i) \in heads}

\* the entries of a list of words that text contains
Contained(text, words) ==
    LET at == HeadPositions(text, words)
    IN {k \in 1..Len(words) : \E i \in at : WordAt(text, i, words[k])}

\* any(word in text for word in words)
ContainsAny(text, words) == Contained(text, words) # {}

\* int(s) of a string of digits; NotAnInt when int() raises ValueError
NotAnInt == 0 - 1
RECURSIVE DigitsValue(_, _)
DigitsValue(s, acc) ==
    IF Len(s) = 0 THEN acc
    ELSE DigitsValue(SubSeq(s, 2, Len(s)), 10 * acc + DigitValue(CharAt(s, 1)))
int(s) ==
    LET t == strip(s)
    IN IF Len(t) > 0 /\ \A i \in 1..Len(t) : IsDigit(CharAt(t, i))
       THEN DigitsValue(t, 0)
       ELSE NotAnInt

\* the index after the run of whitespace that starts at i
RECURSIVE SkipSpace(_, _)
SkipSpace(s, i) ==
    IF i <= Len(s) /\ CharAt(s, i) \in Whitespace THEN SkipSpace(s, i + 1) ELSE i

DigitAt(s, i) == i >= 1 /\ i <= Len(s) /\ IsDigit(CharAt(s, i))
AmPmAt(s, i) == i + 1 <= Len(s) /\ SubSeq(s, i, i + 1) \in {"am", "pm"}

\* the end of the match of (\d{1,2})\s*(am|pm) that starts at i, 0 when none
HourMatchEnd(s, i) ==
    IF DigitAt(s, i) /\ DigitAt(s, i + 1) /\ AmPmAt(s, SkipSpace(s, i + 2))
    THEN SkipSpace(s, i + 2) + 1
    ELSE IF DigitAt(s, i) /\ AmPmAt(s, SkipSpace(s, i + 1))
    THEN SkipSpace(s, i + 1) + 1
    ELSE 0

\* the end of the match of (\d{1,2}):(\d{2})\s*(am|pm) that starts at i, 0 when none
ClockTail(s, j) ==
    IF j <= Len(s) /\ CharAt(s, j) = ":" /\ DigitAt(s, j + 1) /\ DigitAt(s, j + 2)
           /\ AmPmAt(s, SkipSpace(s, j + 3))
    THEN SkipSpace(s, j + 3) + 1
    ELSE 0
ClockMatchEnd(s, i) ==
    IF DigitAt(s, i) /\ DigitAt(s, i + 1) /\ ClockTail(s, i + 2) > 0
    THEN ClockTail(s, i + 2)
    ELSE IF DigitAt(s, i) THEN ClockTail(s, i + 1)
    ELSE 0

\* re.search(pattern, s).group() for the two clock patterns: the leftmost match
NoMatch == ""
HourSearch(s) ==
    LET starts == {i \in 1..Len(s) : HourMatchEnd(s, i) > 0}
    IN IF starts = {} THEN NoMatch
       ELSE LET i == CHOOSE i \in starts : \A j \in starts : i <= j
            IN SubSeq(s, i, HourMatchEnd(s, i))
ClockSearch(s) ==
    LET starts == {i \in 1..Len(s) : ClockMatchEnd(s, i) > 0}
    IN IF starts = {} THEN NoMatch
       ELSE LET i == CHOOSE i \in starts : \A j \in starts : i <= j
            IN SubSeq(s, i, ClockMatchEnd(s, i))

----------------------------------------------------------------------------
(* Text understanding *)

\* date_patterns, in the order of the dict
DatePatterns ==
    << <<"tomorrow", "tomorrow">>, <<"next week", "next_week">>,
       <<"monday", "monday">>, <<"tuesday", "tuesday">>,
       <<"wednesday", "wednesday">>, <<"thursday", "thursday">>,
       <<"friday", "friday">>, <<"saturday", "saturday">>, <<"sunday", "sunday">> >>

\* the words of time_patterns that are no clock time
DaytimeWords == <<"morning", "afternoon", "evening">>

purpose_keywords ==
    <<"meeting", "consultation", "call", "interview", "demo", "appointment">>

\* the first entry of a list of words that text contains, 0 when none
FirstContained(text, words) ==
    LET found == Contained(text, words)
    IN IF found = {} THEN 0 ELSE CHOOSE k \in found : \A j \in found : k <= j

EmptyDict == [k \in {} |-> ""]

\* {**a, **b}, had it kept the keys of b only
MergeKeepingNew(a, b) == b

\* {**a, **b}
Merge(a, b) ==
    [k \in (DOMAIN a) \cup (DOMAIN b) |-> IF k \in DOMAIN b THEN b[k] ELSE a[k]]

DatePart(text_lower) ==
    LET k == FirstContained(text_lower, [i \in 1..Len(DatePatterns) |-> DatePatterns[i][1]])
    IN IF k = 0 THEN EmptyDict
       ELSE [x \in {"date_preference"} |-> DatePatterns[k][2]]

TimePart(text_lower) ==
    LET hour_match == HourSearch(text_lower)
        clock_match == ClockSearch(text_lower)
        k == FirstContained(text_lower, DaytimeWords)
    IN IF hour_match # NoMatch THEN [x \in {"time_preference"} |-> hour_match]
       ELSE IF clock_match # NoMatch THEN [x \in {"time_preference"} |-> clock_match]
       ELSE IF k # 0 THEN [x \in {"time_preference"} |-> DaytimeWords[k]]
       ELSE EmptyDict

PurposePart(text_lower) ==
    LET k == FirstContained(text_lower, purpose_keywords)
    IN IF k = 0 THEN EmptyDict ELSE [x \in {"purpose"} |-> purpose_keywords[k]]

extract_date_time_info(text) ==
    LET text_lower == lower(text)
    IN Merge(Merge(DatePart(text_lower), TimePart(text_lower)), PurposePart(text_lower))

SlotNumbers == {"1", "2", "3", "4", "5", "6", "7", "8", "9", "10"}
ConfirmWords == <<"confirm", "yes", "sounds good", "that works", "book it", "ok">>
BookWords == <<"book", "schedule", "appointment", "meeting">>
AvailabilityWords ==
    <<"available", "free", "slots", "times", "check availability", "show me">>
ModifyWords == <<"cancel", "change", "reschedule">>

\* determine_intent, had a number been a selection in every phase
IntentWithNumbersInAnyPhase(text, conversation_phase) ==
    LET text_lower == strip(lower(text))
    IN IF text_lower \in SlotNumbers THEN "select_slot"
       ELSE IF conversation_phase = "awaiting_confirmation"
                /\ ContainsAny(text_lower, ConfirmWords)
       THEN "confirm_booking"
       ELSE IF ContainsAny(text_lower, BookWords) THEN "book_appointment"
       ELSE IF ContainsAny(text_lower, AvailabilityWords) THEN "check_availability"
       ELSE IF ContainsAny(text_lower, ModifyWords) THEN "modify_booking"
       ELSE "general_inquiry"

\* determine_intent, had a confirmation word confirmed in every phase
IntentWithConfirmInAnyPhase(text, conversation_phase) ==
    LET text_lower == strip(lower(text))
    IN IF conversation_phase = "awaiting_slot_selection" /\ text_lower \in SlotNumbers
       THEN "select_slot"
       ELSE IF ContainsAny(text_lower, ConfirmWords) THEN "confirm_booking"
       ELSE IF ContainsAny(text_lower, BookWords) THEN "book_appointment"
       ELSE IF ContainsAny(text_lower, AvailabilityWords) THEN "check_availability"
       ELSE IF ContainsAny(text_lower, ModifyWords) THEN "modify_booking"
       ELSE "general_inquiry"

\* determine_intent, had it looked for availability words before booking words
IntentWithAvailabilityFirst(text, conversation_phase) ==
    LET text_lower == strip(lower(text))
    IN IF conversation_phase = "awaiting_slot_selection" /\ text_lower \in SlotNumbers
       THEN "select_slot"
       ELSE IF conversation_phase = "awaiting_confirmation"
                /\ ContainsAny(text_lower, ConfirmWords)
       THEN "confirm_booking"
       ELSE IF ContainsAny(text_lower, AvailabilityWords) THEN "check_availability"
       ELSE IF ContainsAny(text_lower, BookWords) THEN "book_appointment"
       ELSE IF ContainsAny(text_lower, ModifyWords) THEN "modify_booking"
       ELSE "general_inquiry"

determine_intent(text, conversation_phase) ==
    LET text_lower == strip(lower(text))
    IN IF conversation_phase = "awaiting_slot_selection" /\ text_lower \in SlotNumbers
       THEN "select_slot"
       ELSE IF conversation_phase = "awaiting_confirmation"
                /\ ContainsAny(text_lower, ConfirmWords)
       THEN "confirm_booking"
       ELSE IF ContainsAny(text_lower, BookWords) THEN "book_appointment"
       ELSE IF ContainsAny(text_lower, AvailabilityWords) THEN "check_availability"
       ELSE IF ContainsAny(text_lower, ModifyWords) THEN "modify_booking"
       ELSE "general_inquiry"

\* get_date_range_from_preference, had a weekday that is today meant today
DateRangeCountingToday(preference, t) ==
    IF preference = "tomorrow"
    THEN LET start == ReplaceHour(t + timedelta(1, 0), OpenHour)
         IN <<start, ReplaceHour(start, CloseHour)>>
    ELSE IF preference = "next_week"
    THEN LET days_ahead == DaysPerWeek - weekday(t)
             start == ReplaceHour(t + timedelta(days_ahead, 0), OpenHour)
         IN <<start, start + timedelta(4, 8)>>
    ELSE IF \E k \in 1..Len(WeekdayNames) : lower(WeekdayNames[k]) = preference
    THEN LET target_weekday ==
                 (CHOOSE k \in 1..Len(WeekdayNames) : lower(WeekdayNames[k]) = preference) - 1
             diff == target_weekday - weekday(t)
             days_ahead == IF diff < 0 THEN diff + DaysPerWeek ELSE diff
             start == ReplaceHour(t + timedelta(days_ahead, 0), OpenHour)
         IN <<start, ReplaceHour(start, CloseHour)>>
    ELSE LET start == ReplaceHour(t + timedelta(1, 0), OpenHour)
         IN <<start, start + timedelta(2, 8)>>

\* get_date_range_from_preference, had next week begun a week from today
DateRangeAWeekFromToday(preference, t) ==
    IF preference = "tomorrow"
    THEN LET start == ReplaceHour(t + timedelta(1, 0), OpenHour)
         IN <<start, ReplaceHour(start, CloseHour)>>
    ELSE IF preference = "next_week"
    THEN LET start == ReplaceHour(t + timedelta(DaysPerWeek, 0), OpenHour)
         IN <<start, start + timedelta(4, 8)>>
    ELSE IF \E k \in 1..Len(WeekdayNames) : lower(WeekdayNames[k]) = preference
    THEN LET target_weekday ==
                 (CHOOSE k \in 1..Len(WeekdayNames) : lower(WeekdayNames[k]) = preference) - 1
             diff == target_weekday - weekday(t)
             days_ahead == IF diff <= 0 THEN diff + DaysPerWeek ELSE diff
             start == ReplaceHour(t + timedelta(days_ahead, 0), OpenHour)
         IN <<start, ReplaceHour(start, CloseHour)>>
    ELSE LET start == ReplaceHour(t + timedelta(1, 0), OpenHour)
         IN <<start, start + timedelta(2, 8)>>

\* get_date_range_from_preference, at wall-clock time t
get_date_range_from_preference(preference, t) ==
    IF preference = "tomorrow"
    THEN LET start == ReplaceHour(t + timedelta(1, 0), OpenHour)
         IN <<start, ReplaceHour(start, CloseHour)>>
    ELSE IF preference = "next_week"
    THEN LET days_ahead == DaysPerWeek - weekday(t)
             start == ReplaceHour(t + timedelta(days_ahead, 0), OpenHour)
         IN <<start, start + timedelta(4, 8)>>
    ELSE IF \E k \in 1..Len(WeekdayNames) : lower(WeekdayNames[k]) = preference
    THEN LET target_weekday ==
                 (CHOOSE k \in 1..Len(WeekdayNames) : lower(WeekdayNames[k]) = preference) - 1
             diff == target_weekday - weekday(t)
             days_ahead == IF diff <= 0 THEN diff + DaysPerWeek ELSE diff
             start == ReplaceHour(t + timedelta(days_ahead, 0), OpenHour)
         IN <<start, ReplaceHour(start, CloseHour)>>
    ELSE LET start == ReplaceHour(t + timedelta(1, 0), OpenHour)
         IN <<start, start + timedelta(2, 8)>>

----------------------------------------------------------------------------
(* The booking workflow: the nodes of the graph, each a function of the     *)
(* conversation state it is handed                                          *)

\* selected_slot = None
None == [none |-> TRUE]

HumanMessage(content) == [role |-> "human", content |-> content]
AIMessage(content) == [role |-> "ai", content |-> content]

\* the state chat_endpoint creates for an unseen conversation id
NewConversation ==
    [messages |-> <<>>,
     user_intent |-> "",
     extracted_info |-> EmptyDict,
     available_slots |-> <<>>,
     selected_slot |-> None,
     booking_confirmed |-> FALSE,
     conversation_phase |-> "initial"]

\* state["messages"][-1].content
LastContent(state) == state.messages[Len(state.messages)].content

ConversationIds == {"a", "b"}

\* what the clients type
Utterances ==
    {"book meeting tomorrow", "schedule a call next week", "show me free times",
     "1", "9", "yes"}

Phases ==
    {"initial", "awaiting_slot_selection", "awaiting_confirmation", "booking_complete"}

\* determine_intent and extract_date_time_info of what the clients type, tabulated
IntentOf == [m \in Utterances, p \in Phases |-> determine_intent(m, p)]
InfoOf == [m \in Utterances |-> extract_date_time_info(m)]
IntentFor(text, conversation_phase) ==
    IF text \in Utterances /\ conversation_phase \in Phases
    THEN IntentOf[text, conversation_phase]
    ELSE determine_intent(text, conversation_phase)
InfoFor(text) ==
    IF text \in Utterances THEN InfoOf[text] ELSE extract_date_time_info(text)

analyze_input(state) ==
    LET last_message == LastContent(state)
        intent == IntentFor(last_message, state.conversation_phase)
        extracted_info == InfoFor(last_message)
    IN [state EXCEPT !.user_intent = intent,
                     !.extracted_info = Merge(state.extracted_info, extracted_info)]

\* the window, had a stored preference for the morning ended it at noon
LookupWindowByTimeOfDay(extracted_info, t) ==
    LET window ==
            IF "date_preference" \in DOMAIN extracted_info
            THEN get_date_range_from_preference(extracted_info["date_preference"], t)
            ELSE LET start_date == ReplaceHour(t + timedelta(1, 0), OpenHour)
                 IN <<start_date, ReplaceHour(start_date, CloseHour)>>
    IN IF "time_preference" \in DOMAIN extracted_info
           /\ extracted_info["time_preference"] = "morning"
       THEN <<window[1], ReplaceHour(window[1], 12)>>
       ELSE window

\* the window check_availability looks up, at wall-clock time t
LookupWindow(extracted_info, t) ==
    IF "date_preference" \in DOMAIN extracted_info
    THEN get_date_range_from_preference(extracted_info["date_preference"], t)
    ELSE LET start_date == ReplaceHour(t + timedelta(1, 0), OpenHour)
         IN <<start_date, ReplaceHour(start_date, CloseHour)>>

\* check_availability, had it set the phase only when it found a slot
LookedWhenFound(state, available_slots) ==
    IF Len(available_slots) > 0
    THEN [state EXCEPT !.available_slots = available_slots,
                       !.conversation_phase = "awaiting_slot_selection"]
    ELSE [state EXCEPT !.available_slots = available_slots]

\* the state check_availability leaves once get_availability has returned
Looked(state, available_slots) ==
    [state EXCEPT !.available_slots = available_slots,
                  !.conversation_phase = "awaiting_slot_selection"]

check_availability(state, appts, t) ==
    LET window == LookupWindow(state.extracted_info, t)
    IN Looked(state, get_availability(window[1], window[2], appts))

\* handle_slot_selection, had it left the phase as it was
SelectionWithoutPhase(state) ==
    LET slot_number == int(strip(LastContent(state)))
    IN IF slot_number # NotAnInt
           /\ 1 <= slot_number /\ slot_number <= Len(state.available_slots)
       THEN [state EXCEPT !.selected_slot = state.available_slots[slot_number]]
       ELSE state

\* handle_slot_selection, had it awaited confirmation after any number
SelectionAwaitingAnyNumber(state) ==
    LET slot_number == int(strip(LastContent(state)))
    IN IF slot_number # NotAnInt
           /\ 1 <= slot_number /\ slot_number <= Len(state.available_slots)
       THEN [state EXCEPT !.selected_slot = state.available_slots[slot_number],
                          !.conversation_phase = "awaiting_confirmation"]
       ELSE [state EXCEPT !.conversation_phase = "awaiting_confirmation"]

handle_slot_selection(state) ==
    LET slot_number == int(strip(LastContent(state)))
    IN IF slot_number # NotAnInt
           /\ 1 <= slot_number /\ slot_number <= Len(state.available_slots)
       THEN [state EXCEPT !.selected_slot = state.available_slots[slot_number],
                          !.conversation_phase = "awaiting_confirmation"]
       ELSE state

\* extracted_info.get("purpose", "meeting")
PurposeOf(extracted_info) ==
    IF "purpose" \in DOMAIN extracted_info THEN extracted_info["purpose"] ELSE "meeting"

\* the datetime confirm_booking books: the slot's own, else parsed from its ISO start
StartDatetime(selected_slot) ==
    IF "datetime_start" \in DOMAIN selected_slot
    THEN selected_slot.datetime_start
    ELSE fromisoformat(selected_slot.start)

DefaultDuration == 1

\* the answers of confirm_booking (without the emoji they begin with)
ConfirmedText(purpose, selected_slot, appointment) ==
    "Booking confirmed! Your " \o purpose \o " is scheduled for "
        \o selected_slot.formatted \o ". Appointment ID: " \o appointment.id

NoSlotSelectedText == "No slot selected. Please choose a slot first."

\* the title confirm_booking gives the appointment
BookingTitle(extracted_info) == "Scheduled " \o title(PurposeOf(extracted_info))

\* the state confirm_booking leaves, had it kept the slots it had listed
BookedWithSlotsKept(state, purpose, selected_slot, appointment) ==
    [state EXCEPT
        !.booking_confirmed = TRUE,
        !.selected_slot = None,
        !.user_intent = "",
        !.conversation_phase = "booking_complete",
        !.messages = Append(state.messages,
            AIMessage(ConfirmedText(purpose, selected_slot, appointment)))]

\* the state confirm_booking leaves, had it appended no answer
BookedSilently(state, purpose, selected_slot, appointment) ==
    [state EXCEPT
        !.booking_confirmed = TRUE,
        !.available_slots = <<>>,
        !.selected_slot = None,
        !.user_intent = "",
        !.conversation_phase = "booking_complete"]

\* the state confirm_booking leaves, had it kept the slot selected
BookedWithSelectionKept(state, purpose, selected_slot, appointment) ==
    [state EXCEPT
        !.booking_confirmed = TRUE,
        !.available_slots = <<>>,
        !.user_intent = "",
        !.conversation_phase = "booking_complete",
        !.messages = Append(state.messages,
            AIMessage(ConfirmedText(purpose, selected_slot, appointment)))]

\* the state confirm_booking leaves, had it gone on awaiting the confirmation
BookedAndStillAwaiting(state, purpose, selected_slot, appointment) ==
    [state EXCEPT
        !.booking_confirmed = TRUE,
        !.user_intent = "",
        !.messages = Append(state.messages,
            AIMessage(ConfirmedText(purpose, selected_slot, appointment)))]

\* the state confirm_booking leaves once book_appointment has returned appointment
Booked(state, purpose, selected_slot, appointment) ==
    [state EXCEPT
        !.booking_confirmed = TRUE,
        !.available_slots = <<>>,
        !.selected_slot = None,
        !.user_intent = "",
        !.conversation_phase = "booking_complete",
        !.messages = Append(state.messages,
            AIMessage(ConfirmedText(purpose, selected_slot, appointment)))]

\* the state confirm_booking leaves when no slot is selected
NotBooked(state) ==
    [state EXCEPT !.messages = Append(state.messages, AIMessage(NoSlotSelectedText))]

\* confirm_booking: the state it returns and the appointment list it leaves
confirm_booking(state, appts) ==
    LET selected_slot == state.selected_slot
        purpose == PurposeOf(state.extracted_info)
    IN IF selected_slot # None
       THEN LET appointment ==
                    NewAppointment(appts, BookingTitle(state.extracted_info),
                                   StartDatetime(selected_slot), DefaultDuration)
            IN [state |-> Booked(state, purpose, selected_slot, appointment),
                appts |-> book_appointment(appts, BookingTitle(state.extracted_info),
                                           StartDatetime(selected_slot), DefaultDuration)]
       ELSE [state |-> NotBooked(state), appts |-> appts]

\* the numbered lines of the slot listing, from item i on
RECURSIVE SlotLines(_, _)
SlotLines(available_slots, i) ==
    IF i > Len(available_slots) THEN ""
    ELSE Str(i) \o ". " \o available_slots[i].formatted \o "\n"
             \o SlotLines(available_slots, i + 1)

\* the slot listing, had it numbered the slots from the last to the first
SlotListTextBackwards(available_slots) ==
    "I found some available time slots for you:\n\n"
        \o SlotLines([i \in 1..Len(available_slots) |->
                          available_slots[Len(available_slots) + 1 - i]], 1)
        \o "\nPlease select a slot by clicking the button or typing the number (e.g., '1' for the first slot)."

SlotListText(available_slots) ==
    "I found some available time slots for you:\n\n"
        \o SlotLines(available_slots, 1)
        \o "\nPlease select a slot by clicking the button or typing the number (e.g., '1' for the first slot)."

NoSlotsText ==
    "Let me check availability for you. Please specify your preferred date and time."

SelectedText(selected_slot) ==
    "Perfect! You've selected: " \o selected_slot.formatted
        \o "\n\nWould you like to confirm this booking? Click 'Confirm' or reply with 'yes'."

SlotNotFoundText ==
    "I didn't find that slot. Please choose a number from the available options above."

ProcessingText == "Processing your booking confirmation..."
SelectFirstText == "Please select a time slot first before confirming."

HelpText ==
    "Hello! I'm here to help you book appointments. You can say things like:\n- 'book meeting tomorrow'\n- 'check availability next week'\n- 'schedule call monday'"

\* generate_response, had it no branch of its own for a confirmation
ResponseWithoutConfirmBranch(state) ==
    LET intent == state.user_intent
        available_slots == state.available_slots
        selected_slot == state.selected_slot
    IN IF intent = "book_appointment" \/ intent = "check_availability"
       THEN [state EXCEPT !.messages = Append(state.messages, AIMessage(
                IF Len(available_slots) > 0
                THEN SlotListText(available_slots)
                ELSE NoSlotsText))]
       ELSE IF intent = "select_slot"
       THEN [state EXCEPT !.messages = Append(state.messages, AIMessage(
                IF selected_slot # None
                THEN SelectedText(selected_slot)
                ELSE SlotNotFoundText))]
       ELSE [state EXCEPT !.messages = Append(state.messages, AIMessage(HelpText)),
                          !.conversation_phase = "initial"]

\* generate_response, had its last branch left the phase as it was
ResponseKeepingPhase(state) ==
    LET intent == state.user_intent
        available_slots == state.available_slots
        selected_slot == state.selected_slot
    IN IF intent = "book_appointment" \/ intent = "check_availability"
       THEN [state EXCEPT !.messages = Append(state.messages, AIMessage(
                IF Len(available_slots) > 0
                THEN SlotListText(available_slots)
                ELSE NoSlotsText))]
       ELSE IF intent = "select_slot"
       THEN [state EXCEPT !.messages = Append(state.messages, AIMessage(
                IF selected_slot # None
                THEN SelectedText(selected_slot)
                ELSE SlotNotFoundText))]
       ELSE IF intent = "confirm_booking"
       THEN [state EXCEPT !.messages = Append(state.messages, AIMessage(
                IF selected_slot # None THEN ProcessingText ELSE SelectFirstText))]
       ELSE [state EXCEPT !.messages = Append(state.messages, AIMessage(HelpText))]

generate_response(state) ==
    LET intent == state.user_intent
        available_slots == state.available_slots
        selected_slot == state.selected_slot
    IN IF intent = "book_appointment" \/ intent = "check_availability"
       THEN [state EXCEPT !.messages = Append(state.messages, AIMessage(
                IF Len(available_slots) > 0
                THEN SlotListText(available_slots)
                ELSE NoSlotsText))]
       ELSE IF intent = "select_slot"
       THEN [state EXCEPT !.messages = Append(state.messages, AIMessage(
                IF selected_slot # None
                THEN SelectedText(selected_slot)
                ELSE SlotNotFoundText))]
       ELSE IF intent = "confirm_booking"
       THEN [state EXCEPT !.messages = Append(state.messages, AIMessage(
                IF selected_slot # None THEN ProcessingText ELSE SelectFirstText))]
       ELSE [state EXCEPT !.messages = Append(state.messages, AIMessage(HelpText)),
                          !.conversation_phase = "initial"]

\* the conditional edge, had it sent a modification to the booking node
RouteModificationToBooking(state) ==
    LET intent == state.user_intent
    IN IF intent \in {"book_appointment", "check_availability"}
       THEN "check_availability"
       ELSE IF intent = "select_slot" THEN "handle_selection"
       ELSE IF intent \in {"confirm_booking", "modify_booking"}
       THEN IF state.selected_slot # None THEN "confirm_booking" ELSE "respond"
       ELSE "respond"

\* the conditional edge, had it sent every other text to the booking node
RouteInquiryToBooking(state) ==
    LET intent == state.user_intent
    IN IF intent \in {"book_appointment", "check_availability"}
       THEN "check_availability"
       ELSE IF intent = "select_slot" THEN "handle_selection"
       ELSE IF state.selected_slot # None THEN "confirm_booking" ELSE "respond"

\* the conditional edge after analyze: the node that runs next
should_check_availability(state) ==
    LET intent == state.user_intent
    IN IF intent \in {"book_appointment", "check_availability"}
       THEN "check_availability"
       ELSE IF intent = "select_slot" THEN "handle_selection"
       ELSE IF intent = "confirm_booking"
       THEN IF state.selected_slot # None THEN "confirm_booking" ELSE "respond"
       ELSE "respond"

\* booking_agent.invoke(state): analyze, the routed node, respond unless the
\* booking node ran; the state returned and the appointment list left
invoke(state, appts, t) ==
    LET analyzed == analyze_input(state)
        node == should_check_availability(analyzed)
    IN IF node = "check_availability"
       THEN [state |-> generate_response(check_availability(analyzed, appts, t)),
             appts |-> appts]
       ELSE IF node = "handle_selection"
       THEN [state |-> generate_response(handle_slot_selection(analyzed)),
             appts |-> appts]
       ELSE IF node = "confirm_booking"
       THEN confirm_booking(analyzed, appts)
       ELSE [state |-> generate_response(analyzed), appts |-> appts]

----------------------------------------------------------------------------
(* The HTTP handlers, each request served from start to end *)

\* the appointment ids clients ask to cancel
CancelIds == {"1", "3"}

\* the process is started on a Monday at 08:30
StartTimes == {timedelta(0, 8) + 30}

NoReply ==
    [kind |-> "none", status |-> 0, conversation_id |-> "", response |-> "",
     available_slots |-> <<>>, booking_confirmed |-> FALSE, appointment |-> None]

NoDebug == [message |-> "", phase |-> "", intent |-> ""]

NoProbe == [fn |-> "none", done |-> TRUE]

NoThreads == [r \in {} |-> None]

\* the number of messages the user of a conversation has sent
Turns(state) == Cardinality({i \in 1..Len(state.messages) : state.messages[i].role = "human"})

\* conversations[conversation_id], had it been created anew for every message
SessionAnew(convs, conversation_id) == NewConversation

\* conversations[conversation_id], created when the id is not in the dict
Session(convs, conversation_id) ==
    IF conversation_id \in DOMAIN convs THEN convs[conversation_id] ELSE NewConversation

\* conversations[conversation_id] = state, had every id shared one session
StoreForAll(convs, conversation_id, state) ==
    [c \in (DOMAIN convs) \cup {conversation_id} |-> state]

\* conversations[conversation_id] = state
Store(convs, conversation_id, state) ==
    [c \in (DOMAIN convs) \cup {conversation_id} |->
        IF c = conversation_id THEN state ELSE convs[c]]

\* the slots of a ChatResponse: start, end and formatted of each
CleanSlots(available_slots) ==
    [i \in 1..Len(available_slots) |->
        [start |-> available_slots[i].start,
         end |-> available_slots[i].end,
         formatted |-> available_slots[i].formatted]]

ChatResponse(conversation_id, result) ==
    [kind |-> "chat", status |-> 200, conversation_id |-> conversation_id,
     response |-> LastContent(result),
     available_slots |-> CleanSlots(result.available_slots),
     booking_confirmed |-> result.booking_confirmed,
     appointment |-> None]

\* the DEBUG lines of a turn: the message, the phase it met and the intent found
DebugLine(state, message) ==
    [message |-> message, phase |-> state.conversation_phase,
     intent |-> IntentFor(message, state.conversation_phase)]

\* POST /chat
ChatEndpoint(conversation_id, message) ==
    LET state == Session(conversations, conversation_id)
        posted == [state EXCEPT !.messages = Append(state.messages, HumanMessage(message))]
        done == invoke(posted, appointments, now)
    IN /\ conversations' = Store(conversations, conversation_id, done.state)
       /\ appointments' = done.appts
       /\ reply' = ChatResponse(conversation_id, done.state)
       /\ debug' = DebugLine(state, message)
       /\ UNCHANGED <<now, threads, probe>>

\* the index of the first appointment with the id, 0 when there is none
IndexOfId(appts, appointment_id) ==
    IF \E i \in 1..Len(appts) : appts[i].id = appointment_id
    THEN CHOOSE i \in 1..Len(appts) :
            /\ appts[i].id = appointment_id
            /\ \A j \in 1..(i - 1) : appts[j].id # appointment_id
    ELSE 0

\* list.pop(i), had it dropped the entries before i as well
PopThrough(appts, i) == SubSeq(appts, i + 1, Len(appts))

\* list.pop(i)
Pop(appts, i) == SubSeq(appts, 1, i - 1) \o SubSeq(appts, i + 1, Len(appts))

\* cancel_appointment: the list it leaves, the status and the entry it answers
cancel_appointment(appts, appointment_id) ==
    LET i == IndexOfId(appts, appointment_id)
    IN IF i > 0
       THEN [appts |-> Pop(appts, i), status |-> 200, appointment |-> appts[i]]
       ELSE [appts |-> appts, status |-> 404, appointment |-> None]

\* DELETE /appointments/{appointment_id}
CancelAppointment(appointment_id) ==
    LET done == cancel_appointment(appointments, appointment_id)
    IN /\ appointments' = done.appts
       /\ reply' = [NoReply EXCEPT !.kind = "cancel", !.status = done.status,
                                   !.appointment = done.appointment]
       /\ UNCHANGED <<now, conversations, debug, threads, probe>>

Init ==
    /\ now \in StartTimes
    /\ appointments = InitialAppointments(now)
    /\ conversations = [c \in {} |-> NewConversation]
    /\ reply = NoReply
    /\ debug = NoDebug
    /\ threads = NoThreads
    /\ probe = NoProbe

\* one client, who waits for each answer before typing again, and cancellations
Next ==
    \/ \E m \in Utterances :
          /\ Turns(Session(conversations, "a")) < MaxTurns
          /\ ChatEndpoint("a", m)
    \/ \E id \in CancelIds : CancelAppointment(id)

Spec == Init /\ [][Next]_vars

----------------------------------------------------------------------------
(* Two clients share the calendar; each waits for its answer before typing *)

SharedUtterances == {"book meeting tomorrow", "1", "yes"}

\* messages each of the two conversations may send
MaxSharedTurns == 3

\* the appointment id the clients ask to cancel: that of the first booking
SharedCancelIds == {"3"}

SharedNext ==
    \/ \E c \in ConversationIds, m \in SharedUtterances :
          /\ Turns(Session(conversations, c)) < MaxSharedTurns
          /\ ChatEndpoint(c, m)
    \/ \E id \in SharedCancelIds : CancelAppointment(id)

SharedSpec == Init /\ [][SharedNext]_vars

----------------------------------------------------------------------------
(* Requests in flight.  chat_endpoint runs on the event loop up to its      *)
(* await; booking_agent.invoke then runs on a worker thread, node by node,  *)
(* on the dict the handler took from conversations, while the event loop    *)
(* serves other requests.  Nothing in the source locks a conversation or    *)
(* the calendar.                                                            *)

RequestIds == 1..MaxInFlight

\* messages the conversation may send
MaxConcTurns == 4

\* what its client types, turn after turn, whether the answers have come or not
ConcScript == <<"book meeting tomorrow", "1", "yes">>
NextLine(state) == ConcScript[(Turns(state) % Len(ConcScript)) + 1]

\* the appointment id clients ask to cancel meanwhile
ConcCancelIds == {"1"}

NewThread(conversation_id, message) ==
    [conversation_id |-> conversation_id, message |-> message, pc |-> "analyze",
     window |-> <<0, 0>>, seen |-> <<>>,
     selected_slot |-> None, purpose |-> "", appointment |-> None]

StateOf(r) == conversations[threads[r].conversation_id]

\* the worker thread of request r moves on, leaving state in its conversation
Step(r, state, thread) ==
    /\ conversations' = Store(conversations, threads[r].conversation_id, state)
    /\ threads' = [threads EXCEPT ![r] = thread]

\* chat_endpoint up to the await: the message is appended and the thread started
Receive(r, conversation_id, message) ==
    LET state == Session(conversations, conversation_id)
    IN /\ r \notin DOMAIN threads
       /\ \A q \in RequestIds : q < r => q \in DOMAIN threads
       /\ conversations' = Store(conversations, conversation_id,
              [state EXCEPT !.messages = Append(state.messages, HumanMessage(message))])
       /\ threads' = [q \in (DOMAIN threads) \cup {r} |->
                         IF q = r THEN NewThread(conversation_id, message) ELSE threads[q]]
       /\ UNCHANGED <<now, appointments, reply, debug, probe>>

\* the analyze node and the conditional edge after it
Analyze(r) ==
    /\ r \in DOMAIN threads /\ threads[r].pc = "analyze"
    /\ LET analyzed == analyze_input(StateOf(r))
       IN /\ Step(r, analyzed,
                  [threads[r] EXCEPT !.pc = should_check_availability(analyzed)])
          /\ debug' = [message |-> LastContent(StateOf(r)),
                       phase |-> StateOf(r).conversation_phase,
                       intent |-> analyzed.user_intent]
    /\ UNCHANGED <<now, appointments, reply, probe>>

\* check_availability up to the scan of calendar.appointments
CheckBegin(r) ==
    /\ r \in DOMAIN threads /\ threads[r].pc = "check_availability"
    /\ threads' = [threads EXCEPT ![r] =
           [@ EXCEPT !.pc = "scanning", !.seen = appointments,
                     !.window = LookupWindow(StateOf(r).extracted_info, now)]]
    /\ UNCHANGED <<now, appointments, conversations, reply, debug, probe>>

\* what the inner loop "for apt in self.appointments" can meet of the list seen
\* when cancel_appointment pops an entry under it: the list as it was, the list
\* as it is, or, the iterator stepping over the entry that moved into the place
\* it had just left, the list as it was less a later entry
Met(seen, appts) ==
    {seen, appts}
        \cup {Pop(seen, k) : k \in {j \in 2..Len(seen) :
                                      \E i \in 1..(j - 1) : appts = Pop(seen, i)}}

\* the lists get_availability can return for a scan that began with the list seen
\* and ends with the list appts
ScanOutcomes(window, seen, appts) ==
    IF seen = appts THEN {get_availability(window[1], window[2], appts)}
    ELSE {RacedScan(window[1], window[2], seen, during, appts, at) :
              during \in Met(seen, appts),
              at \in 1..Iterations(window[1], window[2])}

\* the scan ends
CheckEnd(r) ==
    /\ r \in DOMAIN threads /\ threads[r].pc = "scanning"
    /\ \E available_slots \in ScanOutcomes(threads[r].window, threads[r].seen, appointments) :
          Step(r, Looked(StateOf(r), available_slots), [threads[r] EXCEPT !.pc = "respond"])
    /\ UNCHANGED <<now, appointments, reply, debug, probe>>

\* the handle_selection node
Select(r) ==
    /\ r \in DOMAIN threads /\ threads[r].pc = "handle_selection"
    /\ Step(r, handle_slot_selection(StateOf(r)), [threads[r] EXCEPT !.pc = "respond"])
    /\ UNCHANGED <<now, appointments, reply, debug, probe>>

\* confirm_booking up to the dict book_appointment builds from len(appointments)
ConfirmRead(r) ==
    /\ r \in DOMAIN threads /\ threads[r].pc = "confirm_booking"
    /\ IF StateOf(r).selected_slot # None
       THEN /\ threads' = [threads EXCEPT ![r] =
                   [@ EXCEPT !.pc = "append", !.seen = appointments,
                             !.selected_slot = StateOf(r).selected_slot,
                             !.purpose = PurposeOf(StateOf(r).extracted_info),
                             !.appointment =
                                 NewAppointment(appointments,
                                                BookingTitle(StateOf(r).extracted_info),
                                                StartDatetime(StateOf(r).selected_slot),
                                                DefaultDuration)]]
            /\ UNCHANGED conversations
       ELSE Step(r, NotBooked(StateOf(r)), [threads[r] EXCEPT !.pc = "return"])
    /\ UNCHANGED <<now, appointments, reply, debug, probe>>

\* book_appointment appends and returns; confirm_booking updates the state
ConfirmAppend(r) ==
    /\ r \in DOMAIN threads /\ threads[r].pc = "append"
    /\ appointments' = Append(appointments, threads[r].appointment)
    /\ Step(r, Booked(StateOf(r), threads[r].purpose, threads[r].selected_slot,
                      threads[r].appointment),
            [threads[r] EXCEPT !.pc = "return"])
    /\ UNCHANGED <<now, reply, debug, probe>>

\* the respond node
Respond(r) ==
    /\ r \in DOMAIN threads /\ threads[r].pc = "respond"
    /\ Step(r, generate_response(StateOf(r)), [threads[r] EXCEPT !.pc = "return"])
    /\ UNCHANGED <<now, appointments, reply, debug, probe>>

\* chat_endpoint after the await: the result is stored and answered
Return(r) ==
    /\ r \in DOMAIN threads /\ threads[r].pc = "return"
    /\ conversations' = Store(conversations, threads[r].conversation_id, StateOf(r))
    /\ reply' = ChatResponse(threads[r].conversation_id, StateOf(r))
    /\ threads' = [q \in (DOMAIN threads) \ {r} |-> threads[q]]
    /\ UNCHANGED <<now, appointments, debug, probe>>

ConcNext ==
    \/ \E r \in RequestIds :
          /\ Turns(Session(conversations, "a")) < MaxConcTurns
          /\ Receive(r, "a", NextLine(Session(conversations, "a")))
    \/ \E r \in RequestIds : Analyze(r)
    \/ \E r \in RequestIds : CheckBegin(r)
    \/ \E r \in RequestIds : CheckEnd(r)
    \/ \E r \in RequestIds : Select(r)
    \/ \E r \in RequestIds : ConfirmRead(r)
    \/ \E r \in RequestIds : ConfirmAppend(r)
    \/ \E r \in RequestIds : Respond(r)
    \/ \E r \in RequestIds : Return(r)
    \/ \E id \in ConcCancelIds :
          /\ IndexOfId(appointments, id) > 0
          /\ CancelAppointment(id)

ConcSpec == Init /\ [][ConcNext]_vars

----------------------------------------------------------------------------
(* One client, served one turn at a time, whose turns may fail *)

\* POST /chat when booking_agent.invoke raises: the handler has created the
\* session and appended the message, and answers 500
ChatEndpointFails(conversation_id, message) ==
    LET state == Session(conversations, conversation_id)
        posted == [state EXCEPT !.messages = Append(state.messages, HumanMessage(message))]
    IN /\ conversations' = Store(conversations, conversation_id, posted)
       /\ reply' = [NoReply EXCEPT !.kind = "chat", !.status = 500,
                                   !.conversation_id = conversation_id]
       /\ debug' = [message |-> message, phase |-> state.conversation_phase, intent |-> ""]
       /\ UNCHANGED <<now, appointments, threads, probe>>

FaultNext ==
    \/ \E m \in SharedUtterances :
          /\ Turns(Session(conversations, "a")) < MaxSharedTurns
          /\ ChatEndpoint("a", m)
    \/ \E m \in SharedUtterances :
          /\ Turns(Session(conversations, "a")) < MaxSharedTurns
          /\ ChatEndpointFails("a", m)

FaultSpec == Init /\ [][FaultNext]_vars

----------------------------------------------------------------------------
(* The pure functions, called directly on inputs drawn from bounded sets *)

\* days of the second week
Monday == DaysPerWeek
Friday == DaysPerWeek + 4
Saturday == DaysPerWeek + 5
Sunday == DaysPerWeek + 6

\* window starts: on and off the hour, on weekdays and at the weekend
ProbeStarts ==
    {timedelta(Monday, 9), timedelta(Monday, 8) + 30, timedelta(Monday, 0),
     timedelta(Friday, 15), timedelta(Friday, 16) + 30,
     timedelta(Saturday, 9), timedelta(Sunday, 23)}

\* window lengths in minutes: empty, shorter than a slot, a day, several days
ProbeLengths ==
    {0, 30, timedelta(0, 1), timedelta(0, 8), timedelta(2, 8), timedelta(4, 8)}

\* appointments on and off the hour, short and long
ProbeAppointments ==
    {[id |-> "1", title |-> "x", start |-> timedelta(Monday, 10),
      end |-> timedelta(Monday, 11)],
     [id |-> "2", title |-> "x", start |-> timedelta(Monday, 10) + 30,
      end |-> timedelta(Monday, 11) + 30],
     [id |-> "3", title |-> "x", start |-> timedelta(Friday, 16),
      end |-> timedelta(Friday, 18)],
     [id |-> "4", title |-> "x", start |-> timedelta(Monday, 12),
      end |-> timedelta(Monday + 2, 12)],
     [id |-> "5", title |-> "x", start |-> timedelta(Monday + 1, 9),
      end |-> timedelta(Monday + 1, 9) + 1]}

\* the appointment lists of at most n appointments
RECURSIVE ProbeLists(_)
ProbeLists(n) ==
    IF n = 0 THEN {<<>>}
    ELSE ProbeLists(n - 1)
         \cup {Append(l, a) : l \in ProbeLists(n - 1), a \in ProbeAppointments}

AvailabilityProbes ==
    {[fn |-> "get_availability", done |-> FALSE, start_date |-> s,
      end_date |-> s + d, appts |-> l, out |-> <<>>] :
        s \in ProbeStarts, d \in ProbeLengths, l \in ProbeLists(MaxProbeAppts)}

ProbeTexts ==
    {"1", "10", " 1 ", "7\n", "0", "11", "1.", "slot 1", "one",
     "confirm", "Confirm", "yes", "Yes please", "ok", "sounds good", "no",
     "book meeting tomorrow", "book it", "schedule a call", "my appointment",
     "show me free times", "what is available", "cancel", "reschedule the meeting",
     "cancel my slots", "book a free slot", "hello", ""}

ProbePhases == Phases \cup {""}

IntentProbes ==
    {[fn |-> "determine_intent", done |-> FALSE, text |-> m, phase |-> p, out |-> ""] :
        m \in ProbeTexts, p \in ProbePhases}

\* the ids asked to be cancelled: those of the probed appointments and one more
ProbeIds == {"1", "2", "3", "4", "5", "6"}

CancelProbes ==
    {[fn |-> "cancel_appointment", done |-> FALSE, appts |-> l, id |-> id, out |-> None] :
        l \in ProbeLists(MaxProbeAppts), id \in ProbeIds}

\* what the client of a probed turn types
TurnTexts ==
    {"yes", "1", "hello", "book meeting tomorrow", "schedule a call saturday",
     "show me free times", "cancel"}

\* the slots a probed session has listed, and the one it has selected
ProbeSlots == get_availability(timedelta(1, 9), timedelta(1, 17), <<>>)
ProbeSelections == {None, ProbeSlots[1]}

\* the sessions a turn can meet: every phase, with and without listed slots, a
\* selected slot, a stored date and an earlier booking
ProbeStates ==
    {[NewConversation EXCEPT
        !.messages = <<HumanMessage(m)>>,
        !.conversation_phase = p,
        !.available_slots = available_slots,
        !.selected_slot = selected_slot,
        !.extracted_info = extracted_info,
        !.booking_confirmed = booking_confirmed] :
        m \in TurnTexts, p \in Phases,
        available_slots \in {<<>>, ProbeSlots},
        selected_slot \in ProbeSelections,
        extracted_info \in {EmptyDict, [x \in {"date_preference"} |-> "tomorrow"]},
        booking_confirmed \in BOOLEAN}

InvokeProbes ==
    {[fn |-> "invoke", done |-> FALSE, state |-> state, out |-> None] :
        state \in ProbeStates}

\* every preference extract_date_time_info can store, asked at midnight, in the
\* morning and late in the evening of each day of a week
DateRangeProbes ==
    {[fn |-> "get_date_range_from_preference", done |-> FALSE, preference |-> p,
      t |-> timedelta(d, 0) + m, out |-> <<0, 0>>] :
        p \in {DatePatterns[k][2] : k \in 1..Len(DatePatterns)},
        d \in 0..(DaysPerWeek - 1),
        m \in {0, timedelta(0, 8) + 30, timedelta(0, 23) + 30}}

CallGetDateRange ==
    /\ probe.fn = "get_date_range_from_preference" /\ ~probe.done
    /\ probe' = [probe EXCEPT !.done = TRUE,
                    !.out = get_date_range_from_preference(probe.preference, probe.t)]
    /\ UNCHANGED <<now, appointments, conversations, reply, debug, threads>>

CallCancelAppointment ==
    /\ probe.fn = "cancel_appointment" /\ ~probe.done
    /\ probe' = [probe EXCEPT !.done = TRUE,
                    !.out = cancel_appointment(probe.appts, probe.id)]
    /\ UNCHANGED <<now, appointments, conversations, reply, debug, threads>>

CallInvoke ==
    /\ probe.fn = "invoke" /\ ~probe.done
    /\ probe' = [probe EXCEPT !.done = TRUE,
                    !.out = invoke(probe.state, appointments, now)]
    /\ UNCHANGED <<now, appointments, conversations, reply, debug, threads>>

CallGetAvailability ==
    /\ probe.fn = "get_availability" /\ ~probe.done
    /\ probe' = [probe EXCEPT !.done = TRUE,
                    !.out = get_availability(probe.start_date, probe.end_date, probe.appts)]
    /\ UNCHANGED <<now, appointments, conversations, reply, debug, threads>>

CallDetermineIntent ==
    /\ probe.fn = "determine_intent" /\ ~probe.done
    /\ probe' = [probe EXCEPT !.done = TRUE,
                    !.out = determine_intent(probe.text, probe.phase)]
    /\ UNCHANGED <<now, appointments, conversations, reply, debug, threads>>

FnInit ==
    /\ now \in StartTimes
    /\ appointments = InitialAppointments(now)
    /\ conversations = [c \in {} |-> NewConversation]
    /\ reply = NoReply
    /\ debug = NoDebug
    /\ threads = NoThreads
    /\ probe \in AvailabilityProbes \cup IntentProbes \cup CancelProbes \cup InvokeProbes
                    \cup DateRangeProbes

FnNext ==
    \/ CallGetAvailability
    \/ CallDetermineIntent
    \/ CallCancelAppointment
    \/ CallInvoke
    \/ CallGetDateRange

FnSpec == FnInit /\ [][FnNext]_vars

----------------------------------------------------------------------------
(* The claims *)

\* the last request answered was a turn of conversation "a" with this intent
TurnWas(intent) ==
    reply.kind = "chat" /\ reply.conversation_id = "a" /\ debug.intent = intent

\* the step answers a turn of conversation "a" with this intent
TurnIs(intent) ==
    reply'.kind = "chat" /\ reply'.conversation_id = "a" /\ debug'.intent = intent

\* the number a client typed
NumberTyped(message) == IF message = "1" THEN 1 ELSE IF message = "9" THEN 9 ELSE 0

\* C1: every slot get_availability returns starts at an hour of the day from 9
\* to 16 on a Monday to Friday, ends one hour after it starts, and overlaps no
\* appointment of the list it was given.
SlotsInBusinessHoursAndFree ==
    (probe.fn = "get_availability" /\ probe.done) =>
        \A i \in 1..Len(probe.out) :
            LET slot == probe.out[i]
            IN /\ fromisoformat(slot.start) = slot.datetime_start
               /\ fromisoformat(slot.end) = slot.datetime_end
               /\ hour(slot.datetime_start) >= 9 /\ hour(slot.datetime_start) < 17
               /\ weekday(slot.datetime_start) \in 0..4
               /\ slot.datetime_end = slot.datetime_start + 60
               /\ \A k \in 1..Len(probe.appts) :
                     ~(slot.datetime_start < probe.appts[k].end
                           /\ slot.datetime_end > probe.appts[k].start)

\* a scan of the Monday, 9 to 17, that met an appointment from 10:30 to 11:30
\* and returned the six hours the appointment leaves free
C1Witness ==
    /\ probe.fn = "get_availability" /\ probe.done
    /\ probe.start_date = timedelta(Monday, 9)
    /\ probe.end_date = timedelta(Monday, 17)
    /\ \E k \in 1..Len(probe.appts) : probe.appts[k].start = timedelta(Monday, 10) + 30
    /\ Len(probe.out) = 6

\* C2: once an appointment starting at T is in the list, and as long as it is
\* not cancelled, a lookup that begins afterwards returns no slot starting at T.
BookedHourNotOffered ==
    [][\A r \in DOMAIN threads :
          (threads[r].pc = "scanning" /\ threads'[r].pc = "respond") =>
              \A k \in 1..Len(threads[r].seen) :
                  LET booked == threads[r].seen[k]
                      found == conversations'[threads[r].conversation_id].available_slots
                  IN (\E j \in 1..Len(appointments) : appointments[j] = booked) =>
                         \A i \in 1..Len(found) : found[i].datetime_start # booked.start]_vars

\* C3: the appointments of the list have pairwise distinct ids.
IdsDistinct ==
    \A i, j \in 1..Len(appointments) :
        i # j => appointments[i].id # appointments[j].id

\* C4: the turns of one conversation are served one after another: the worker
\* thread of a turn finds, as the last message of the history, the message of
\* its own turn.
TurnMeetsItsOwnMessage ==
    \A r \in DOMAIN threads :
        threads[r].pc = "analyze" => LastContent(StateOf(r)) = threads[r].message

\* C5: while a lookup scans the appointment list, and between a booking's read
\* of the list's length and its append, no request changes the list.
ListHeldWhileScannedOrBooked ==
    \A r \in DOMAIN threads :
        threads[r].pc \in {"scanning", "append"} => appointments = threads[r].seen

\* C6: determine_intent answers select_slot exactly when the phase is
\* awaiting_slot_selection and the text, trimmed, is one of "1" to "10".
SelectSlotIffNumberWhileSelecting ==
    (probe.fn = "determine_intent" /\ probe.done) =>
        (probe.out = "select_slot"
            <=> /\ probe.phase = "awaiting_slot_selection"
                /\ strip(probe.text) \in {"1", "2", "3", "4", "5", "6", "7", "8", "9", "10"})

\* a number with blanks around it, typed while a slot is awaited
C6Witness ==
    /\ probe.fn = "determine_intent" /\ probe.done
    /\ probe.text = " 1 " /\ probe.phase = "awaiting_slot_selection"
    /\ probe.out = "select_slot"

\* C7: determine_intent answers confirm_booking only when the phase is
\* awaiting_confirmation and the text contains a confirmation word; "confirm"
\* is confirm_booking in that phase and general_inquiry in every other.
ConfirmOnlyWhileConfirming ==
    (probe.fn = "determine_intent" /\ probe.done) =>
        /\ probe.out = "confirm_booking" =>
              /\ probe.phase = "awaiting_confirmation"
              /\ \E word \in {"confirm", "yes", "sounds good", "that works", "book it", "ok"} :
                     Contains(lower(probe.text), word)
        /\ probe.text = "confirm" =>
              probe.out = IF probe.phase = "awaiting_confirmation"
                          THEN "confirm_booking"
                          ELSE "general_inquiry"

\* "confirm" typed after the booking is complete
C7Witness ==
    /\ probe.fn = "determine_intent" /\ probe.done
    /\ probe.text = "confirm" /\ probe.phase = "booking_complete"
    /\ probe.out = "general_inquiry"

\* C8: a select_slot turn whose number is within the listed slots sets
\* selected_slot to the slot of that number, moves the phase from
\* awaiting_slot_selection to awaiting_confirmation, and leaves the listed slots
\* and the appointment list as they were.
SelectionTakesNumberedSlot ==
    [][(/\ TurnIs("select_slot")
        /\ NumberTyped(debug'.message) >= 1
        /\ NumberTyped(debug'.message) <= Len(conversations["a"].available_slots)) =>
            /\ conversations'["a"].selected_slot
                   = conversations["a"].available_slots[NumberTyped(debug'.message)]
            /\ conversations["a"].conversation_phase = "awaiting_slot_selection"
            /\ conversations'["a"].conversation_phase = "awaiting_confirmation"
            /\ conversations'["a"].available_slots = conversations["a"].available_slots
            /\ appointments' = appointments]_vars

\* the ninth of ten listed slots was selected
C8Witness ==
    /\ TurnWas("select_slot") /\ debug.message = "9"
    /\ Len(conversations["a"].available_slots) = 10
    /\ conversations["a"].selected_slot = conversations["a"].available_slots[9]
    /\ conversations["a"].conversation_phase = "awaiting_confirmation"

\* C9: after a select_slot turn whose number is greater than the number of
\* listed slots, selected_slot is unset and the phase is awaiting_slot_selection.
NothingSelectedOutOfRange ==
    (/\ TurnWas("select_slot")
     /\ NumberTyped(debug.message) > Len(conversations["a"].available_slots)) =>
        /\ conversations["a"].selected_slot = None
        /\ conversations["a"].conversation_phase = "awaiting_slot_selection"

\* C10: a confirm_booking turn with a slot selected appends one appointment,
\* which starts when the selected slot starts, ends one hour later and is
\* titled after the stored purpose ("meeting" when none is stored); afterwards
\* booking_confirmed is true, no slots are listed, no slot is selected,
\* user_intent is empty and the phase is booking_complete.
ConfirmationBooksSelectedSlot ==
    [][(TurnIs("confirm_booking") /\ conversations["a"].selected_slot # None) =>
          LET before == conversations["a"]
              after == conversations'["a"]
              booked == appointments'[Len(appointments')]
              purpose == IF "purpose" \in DOMAIN after.extracted_info
                         THEN after.extracted_info["purpose"]
                         ELSE "meeting"
          IN /\ Len(appointments') = Len(appointments) + 1
             /\ SubSeq(appointments', 1, Len(appointments)) = appointments
             /\ booked.start = before.selected_slot.datetime_start
             /\ isoformat(booked.start) = before.selected_slot.start
             /\ booked.end = booked.start + 60
             /\ booked.title = IF purpose = "meeting" THEN "Scheduled Meeting"
                               ELSE IF purpose = "call" THEN "Scheduled Call"
                               ELSE ""
             /\ after.booking_confirmed
             /\ after.available_slots = <<>>
             /\ after.selected_slot = None
             /\ after.user_intent = ""
             /\ after.conversation_phase = "booking_complete"]_vars

\* a call was booked
C10Witness ==
    /\ TurnWas("confirm_booking")
    /\ conversations["a"].conversation_phase = "booking_complete"
    /\ reply.booking_confirmed
    /\ appointments[Len(appointments)].title = "Scheduled Call"
    /\ Len(appointments) = 3


\* C11: a turn understood as a confirmation while the session has no selected
\* slot books nothing: the appointment list is as it was, booking_confirmed and
\* the phase are as the turn met them, and the answer asks for a slot first.
ConfirmWithoutSelectionBooksNothing ==
    (/\ probe.fn = "invoke" /\ probe.done
     /\ probe.out.state.user_intent = "confirm_booking"
     /\ probe.state.selected_slot = None)
    => /\ probe.out.appts = appointments
       /\ probe.out.state.booking_confirmed = probe.state.booking_confirmed
       /\ probe.out.state.conversation_phase = probe.state.conversation_phase
       /\ probe.out.state.selected_slot = None
       /\ LastContent(probe.out.state) = SelectFirstText

\* "yes" met a session awaiting confirmation whose selected slot was gone
C11Witness ==
    /\ probe.fn = "invoke" /\ probe.done
    /\ probe.out.state.user_intent = "confirm_booking"
    /\ probe.state.selected_slot = None
    /\ probe.state.conversation_phase = "awaiting_confirmation"
    /\ LastContent(probe.state) = "yes"
    /\ Len(probe.out.state.messages) = Len(probe.state.messages) + 1

HeldSlotsOverlapNoAppointment ==
    \A c \in DOMAIN conversations :
        LET state == conversations[c]
        IN /\ \A i \in 1..Len(state.available_slots) :
                 ~Conflict(state.available_slots[i].datetime_start, appointments)
           /\ state.selected_slot # None =>
                 ~Conflict(state.selected_slot.datetime_start, appointments)

\* C14: a session's selected slot, when set, is one of the slots it has listed.
SelectedSlotIsListed ==
    \A c \in DOMAIN conversations :
        LET state == conversations[c]
        IN state.selected_slot # None =>
              \E i \in 1..Len(state.available_slots) :
                  state.available_slots[i] = state.selected_slot

\* C15: after a turn understood as a general inquiry, which sets the phase back
\* to initial, the session has no selected slot.
NothingSelectedAfterReset ==
    TurnWas("general_inquiry") =>
        /\ conversations["a"].conversation_phase = "initial"
        /\ conversations["a"].selected_slot = None

\* C16: a turn answers booking_confirmed true only when the turn itself appended
\* an appointment.
ConfirmedOnlyByTheBookingTurn ==
    [][(reply'.kind = "chat" /\ reply'.booking_confirmed)
          => appointments' # appointments]_vars

\* C17: a turn understood as a booking or an availability request stores the
\* slots get_availability finds for its window and sets the phase to
\* awaiting_slot_selection, whatever the phase was and also when no slot is
\* found; it books nothing.
LookupTurnAwaitsSelection ==
    (/\ probe.fn = "invoke" /\ probe.done
     /\ probe.out.state.user_intent \in {"book_appointment", "check_availability"})
    => LET result == probe.out.state
           window == LookupWindow(result.extracted_info, now)
       IN /\ result.conversation_phase = "awaiting_slot_selection"
          /\ result.available_slots = get_availability(window[1], window[2], appointments)
          /\ probe.out.appts = appointments
          /\ LastContent(result) = IF Len(result.available_slots) > 0
                                   THEN SlotListText(result.available_slots)
                                   ELSE NoSlotsText

\* a request for a day without slots met a session awaiting confirmation that
\* had slots listed
C17Witness ==
    /\ probe.fn = "invoke" /\ probe.done
    /\ probe.out.state.user_intent \in {"book_appointment", "check_availability"}
    /\ probe.state.conversation_phase = "awaiting_confirmation"
    /\ Len(probe.state.available_slots) > 0
    /\ probe.out.state.available_slots = <<>>
    /\ probe.out.state.conversation_phase = "awaiting_slot_selection"

\* C18: a turn understood as a general inquiry leaves the phase initial,
\* whatever phase it met, and is answered with the help text; it books nothing.
InquiryResetsPhaseAndAnswersHelp ==
    [][TurnIs("general_inquiry") =>
          /\ debug'.phase = Session(conversations, "a").conversation_phase
          /\ conversations'["a"].conversation_phase = "initial"
          /\ reply'.response = HelpText
          /\ appointments' = appointments]_vars

\* an inquiry met the phase booking_complete and left the phase initial
C18Witness ==
    /\ TurnWas("general_inquiry")
    /\ debug.phase = "booking_complete"
    /\ conversations["a"].conversation_phase = "initial"
    /\ reply.response = HelpText

\* C19: a reply that does not fit the phase it meets, a bare slot number
\* outside awaiting_slot_selection or a bare "yes" outside
\* awaiting_confirmation, leaves the phase of the session as it was.
MisplacedReplyKeepsPhase ==
    (/\ reply.kind = "chat" /\ reply.status = 200 /\ reply.conversation_id = "a"
     /\ \/ NumberTyped(debug.message) > 0 /\ debug.phase # "awaiting_slot_selection"
        \/ debug.message = "yes" /\ debug.phase # "awaiting_confirmation")
    => conversations["a"].conversation_phase = debug.phase

\* C20: a turn answered with an internal error leaves the stored sessions,
\* their histories included, as they were before the turn.
FailedTurnLeavesSessionsAlone ==
    [][(reply'.kind = "chat" /\ reply'.status = 500)
          => conversations' = conversations]_vars

\* C21: the stored preferences merge additively: after a turn every key
\* extracted from the turn's text holds the value extracted, every key stored
\* before and not extracted from it holds its old value, and no other key is
\* stored, so that no key is ever removed.
PreferencesMergeAdditively ==
    [][TurnIs(debug'.intent) =>
          LET stored == Session(conversations, "a").extracted_info
              extracted == InfoFor(debug'.message)
              merged == conversations'["a"].extracted_info
          IN /\ DOMAIN merged = (DOMAIN stored) \cup (DOMAIN extracted)
             /\ \A k \in DOMAIN extracted : merged[k] = extracted[k]
             /\ \A k \in (DOMAIN stored) \ (DOMAIN extracted) : merged[k] = stored[k]]_vars

\* a third turn whose text names no date, time or purpose met the date and the
\* purpose of an earlier turn and left them stored
C21Witness ==
    /\ TurnWas("check_availability")
    /\ debug.message = "show me free times"
    /\ Len(conversations["a"].messages) >= 6
    /\ extract_date_time_info(debug.message) = EmptyDict
    /\ DOMAIN conversations["a"].extracted_info = {"date_preference", "purpose"}
    /\ conversations["a"].extracted_info["date_preference"] = "next_week"
    /\ conversations["a"].extracted_info["purpose"] = "call"

\* C22: the history only grows: no step removes or changes an entry of it, and
\* a turn appends exactly two entries, what the user typed and then one answer
\* of the assistant, which is the response text the turn returns.
HistoryGrowsByUtteranceAndAnswer ==
    [][/\ \A c \in DOMAIN conversations :
             /\ c \in DOMAIN conversations'
             /\ Len(conversations'[c].messages) >= Len(conversations[c].messages)
             /\ SubSeq(conversations'[c].messages, 1, Len(conversations[c].messages))
                    = conversations[c].messages
       /\ TurnIs(debug'.intent) =>
             conversations'["a"].messages
                 = Session(conversations, "a").messages
                       \o <<HumanMessage(debug'.message), AIMessage(reply'.response)>>]_vars

\* a confirmation, which is answered by confirm_booking itself, was the third
\* turn and left six entries, the last two "yes" and the answer returned
C22Witness ==
    /\ TurnWas("confirm_booking")
    /\ Len(conversations["a"].messages) = 6
    /\ conversations["a"].messages[5] = HumanMessage("yes")
    /\ conversations["a"].messages[6] = AIMessage(reply.response)
    /\ \A i \in 1..6 :
          conversations["a"].messages[i].role = (IF i % 2 = 1 THEN "human" ELSE "ai")

\* the candidate hours of a window, one hour apart from its start and before its
\* end, that lie in business hours and overlap no appointment of the list
AcceptedHours(start_date, end_date, appts) ==
    {current \in {start_date + 60 * k : k \in 0..((end_date - start_date) \div 60)} :
        /\ current < end_date
        /\ hour(current) >= 9 /\ hour(current) < 17
        /\ weekday(current) \in 0..4
        /\ \A k \in 1..Len(appts) :
              ~(current < appts[k].end /\ current + 60 > appts[k].start)}

\* C23: get_availability returns at most ten slots, in strictly increasing order
\* of start; they are the earliest of the accepted candidate hours of the
\* window, all of them when there are at most ten.
FirstTenAcceptedHoursInOrder ==
    (probe.fn = "get_availability" /\ probe.done) =>
        LET accepted == AcceptedHours(probe.start_date, probe.end_date, probe.appts)
            starts == {probe.out[i].datetime_start : i \in 1..Len(probe.out)}
        IN /\ Len(probe.out) <= 10
           /\ Len(probe.out) = Min(10, Cardinality(accepted))
           /\ \A i \in 1..(Len(probe.out) - 1) :
                 probe.out[i].datetime_start < probe.out[i + 1].datetime_start
           /\ starts \subseteq accepted
           /\ \A later \in accepted \ starts : \A current \in starts : current < later

\* a scan of more than two days, past an appointment, found more than ten
\* accepted hours and returned ten
C23Witness ==
    /\ probe.fn = "get_availability" /\ probe.done
    /\ Len(probe.appts) > 0
    /\ Len(probe.out) = 10
    /\ Cardinality(AcceptedHours(probe.start_date, probe.end_date, probe.appts)) > 10
    /\ \E k \in 1..Len(probe.appts) :
          /\ probe.appts[k].start > probe.start_date
          /\ probe.appts[k].start < probe.out[10].datetime_start

\* C24: a turn of one conversation leaves the stored session of every other
\* conversation exactly as it was.
TurnLeavesOtherSessionsAlone ==
    [][reply'.kind = "chat" =>
          \A c \in DOMAIN conversations :
              c # reply'.conversation_id =>
                  c \in DOMAIN conversations' /\ conversations'[c] = conversations[c]]_vars

\* conversation a was answered its booking while conversation b, with a slot
\* selected, awaits confirmation
C24Witness ==
    /\ reply.kind = "chat" /\ reply.conversation_id = "a"
    /\ DOMAIN conversations = {"a", "b"}
    /\ conversations["a"].conversation_phase = "booking_complete"
    /\ reply.response = LastContent(conversations["a"])
    /\ conversations["b"].conversation_phase = "awaiting_confirmation"
    /\ conversations["b"].selected_slot # None
    /\ Len(conversations["b"].messages) = 4

\* C25: the first message of an unseen conversation id is processed against a
\* fresh session: phase initial, empty history, no preferences, no slots, no
\* selected slot, booking_confirmed false.  A message of a known id is processed
\* against the session stored: its phase, its history, its preferences and its
\* booking_confirmed are those the turn meets.
FreshSessionOnlyForUnseenId ==
    [][reply'.kind = "chat" =>
          LET c == reply'.conversation_id
              after == conversations'[c]
              answered == <<HumanMessage(debug'.message), AIMessage(reply'.response)>>
          IN IF c \notin DOMAIN conversations
             THEN /\ debug'.phase = "initial"
                  /\ after.messages = answered
                  /\ after.extracted_info = extract_date_time_info(debug'.message)
                  /\ after.selected_slot = None
                  /\ ~after.booking_confirmed
                  /\ after.available_slots # <<>> => after.user_intent = "book_appointment"
             ELSE /\ debug'.phase = conversations[c].conversation_phase
                  /\ after.messages = conversations[c].messages \o answered
                  /\ DOMAIN conversations[c].extracted_info \subseteq DOMAIN after.extracted_info
                  /\ conversations[c].booking_confirmed => after.booking_confirmed]_vars

\* the first message of conversation b, sent while conversation a awaits
\* confirmation, met a fresh session
C25Witness ==
    /\ reply.kind = "chat" /\ reply.conversation_id = "b"
    /\ DOMAIN conversations = {"a", "b"}
    /\ debug.phase = "initial"
    /\ Len(conversations["b"].messages) = 2
    /\ conversations["b"].selected_slot = None
    /\ conversations["a"].conversation_phase = "awaiting_confirmation"
    /\ conversations["a"].selected_slot # None

\* C26: with no date preference stored, the lookup of a turn covers the window
\* from tomorrow at 09:00 to 17:00 two days after that start.
DefaultWindowEndsTwoDaysLater ==
    (/\ TurnWas("check_availability")
     /\ "date_preference" \notin DOMAIN conversations["a"].extracted_info)
    => LET start == ReplaceHour(now + timedelta(1, 0), 9)
       IN conversations["a"].available_slots
              = get_availability(start, ReplaceHour(start + timedelta(2, 0), 17), appointments)

\* the number datetime.weekday() gives the day a preference names, Monday 0
WeekdayNamed(preference) ==
    CHOOSE k \in 0..6 :
        preference = <<"monday", "tuesday", "wednesday", "thursday",
                       "friday", "saturday", "sunday">>[k + 1]

\* C27: for a preference that names a weekday, whatever the current day, the
\* window starts at 09:00 on a day of that weekday from one to seven days after
\* today, seven when today is that weekday, and ends at 17:00 of the same day.
WeekdayWindowIsNextSuchDay ==
    (/\ probe.fn = "get_date_range_from_preference" /\ probe.done
     /\ probe.preference \in {"monday", "tuesday", "wednesday", "thursday",
                              "friday", "saturday", "sunday"})
    => LET start == probe.out[1]
           end == probe.out[2]
           ahead == DateOf(start) - DateOf(probe.t)
       IN /\ hour(start) = 9 /\ minute(start) = 0
          /\ weekday(start) = WeekdayNamed(probe.preference)
          /\ ahead >= 1 /\ ahead <= 7
          /\ weekday(probe.t) = WeekdayNamed(probe.preference) => ahead = 7
          /\ DateOf(end) = DateOf(start) /\ hour(end) = 17 /\ minute(end) = 0

\* "wednesday" asked late on a Wednesday gave the Wednesday a week later
C27Witness ==
    /\ probe.fn = "get_date_range_from_preference" /\ probe.done
    /\ probe.preference = "wednesday"
    /\ weekday(probe.t) = 2 /\ hour(probe.t) = 23
    /\ DateOf(probe.out[1]) = DateOf(probe.t) + 7

\* C28: for the preference next_week, whatever the current day, the window
\* starts at 09:00 on the first Monday after today and ends at 17:00 on the
\* Friday of that week.
NextWeekWindowIsMondayToFriday ==
    (/\ probe.fn = "get_date_range_from_preference" /\ probe.done
     /\ probe.preference = "next_week")
    => LET start == probe.out[1]
           end == probe.out[2]
       IN /\ hour(start) = 9 /\ minute(start) = 0
          /\ weekday(start) = 0
          /\ DateOf(start) > DateOf(probe.t)
          /\ DateOf(start) <= DateOf(probe.t) + 7
          /\ weekday(end) = 4 /\ DateOf(end) = DateOf(start) + 4
          /\ hour(end) = 17 /\ minute(end) = 0

\* next week asked on a Thursday morning gave the Monday four days later
C28Witness ==
    /\ probe.fn = "get_date_range_from_preference" /\ probe.done
    /\ probe.preference = "next_week"
    /\ weekday(probe.t) = 3 /\ hour(probe.t) = 8
    /\ DateOf(probe.out[1]) = DateOf(probe.t) + 4
    /\ DateOf(probe.out[2]) = DateOf(probe.t) + 8

\* the text, in lower case, holds one of the words
Holds(text, words) == \E word \in words : Contains(lower(text), word)

\* C29: the intent is that of the first rule that matches, in the order
\* select_slot, confirm_booking, book_appointment, check_availability,
\* modify_booking, general_inquiry: when neither of the two rules tied to a
\* phase matches, a text with a booking word is a booking whatever else it
\* holds, and a text with an availability word and no booking word is an
\* availability request even when it holds a modification word.
FirstMatchingRuleWins ==
    (probe.fn = "determine_intent" /\ probe.done) =>
        LET selects == /\ probe.phase = "awaiting_slot_selection"
                       /\ strip(lower(probe.text))
                              \in {"1", "2", "3", "4", "5", "6", "7", "8", "9", "10"}
            confirms == /\ probe.phase = "awaiting_confirmation"
                        /\ Holds(probe.text, {"confirm", "yes", "sounds good",
                                              "that works", "book it", "ok"})
            books == Holds(probe.text, {"book", "schedule", "appointment", "meeting"})
            asks == Holds(probe.text, {"available", "free", "slots", "times",
                                       "check availability", "show me"})
            modifies == Holds(probe.text, {"cancel", "change", "reschedule"})
        IN /\ selects => probe.out = "select_slot"
           /\ (~selects /\ confirms) => probe.out = "confirm_booking"
           /\ (~selects /\ ~confirms /\ books) => probe.out = "book_appointment"
           /\ (~selects /\ ~confirms /\ ~books /\ asks) => probe.out = "check_availability"
           /\ (~selects /\ ~confirms /\ ~books /\ ~asks /\ modifies)
                 => probe.out = "modify_booking"
           /\ (~selects /\ ~confirms /\ ~books /\ ~asks /\ ~modifies)
                 => probe.out = "general_inquiry"

\* a text with a booking word and an availability word, met while a slot is to
\* be selected, was taken for a booking
C29Witness ==
    /\ probe.fn = "determine_intent" /\ probe.done
    /\ probe.text = "book a free slot"
    /\ Holds(probe.text, {"book"}) /\ Holds(probe.text, {"free", "slots"})
    /\ probe.phase = "awaiting_slot_selection"
    /\ probe.out = "book_appointment"

\* C30: "book meeting tomorrow" is understood as a booking request in every
\* phase, awaiting_confirmation included, and its turn appends no appointment.
BookingRequestNeverConfirms ==
    [][(TurnIs(debug'.intent) /\ debug'.message = "book meeting tomorrow")
          => /\ debug'.intent = "book_appointment"
             /\ appointments' = appointments]_vars

\* C31: a select_slot turn whose number is greater than the number of listed
\* slots is answered that the slot was not found, and announces no selection.
OutOfRangeAnswersNotFound ==
    (/\ TurnWas("select_slot")
     /\ NumberTyped(debug.message) > Len(conversations["a"].available_slots))
    => reply.response = SlotNotFoundText

\* C32: a turn understood as a modification leaves the appointment list as it
\* was and is answered as a general inquiry is: with the help text, and with
\* the phase set to initial.
ModificationOnlyAnswersHelp ==
    (/\ probe.fn = "invoke" /\ probe.done
     /\ determine_intent(LastContent(probe.state), probe.state.conversation_phase)
            = "modify_booking")
    => /\ probe.out.state.user_intent = "modify_booking"
       /\ probe.out.appts = appointments
       /\ LastContent(probe.out.state) = HelpText
       /\ probe.out.state.conversation_phase = "initial"
       /\ Len(probe.out.state.messages) = Len(probe.state.messages) + 1
       /\ probe.out.state.selected_slot = probe.state.selected_slot
       /\ probe.out.state.available_slots = probe.state.available_slots
       /\ probe.out.state.booking_confirmed = probe.state.booking_confirmed

\* "cancel" met a session awaiting confirmation with a slot selected
C32Witness ==
    /\ probe.fn = "invoke" /\ probe.done
    /\ probe.out.state.user_intent = "modify_booking"
    /\ LastContent(probe.state) = "cancel"
    /\ probe.state.conversation_phase = "awaiting_confirmation"
    /\ probe.state.selected_slot # None
    /\ probe.out.state.conversation_phase = "initial"
    /\ probe.out.appts = appointments

\* C33: no two appointments of the calendar overlap in time.
NoTwoAppointmentsOverlap ==
    \A i, j \in 1..Len(appointments) :
        i < j => ~(appointments[i].start < appointments[j].end
                      /\ appointments[j].start < appointments[i].end)

\* C34: while turns are applied one at a time, a session in phase
\* awaiting_confirmation has a selected slot, which is one of the slots it
\* lists; so a turn understood as a confirmation always finds a slot selected.
AwaitingConfirmationHasListedSelection ==
    [][/\ \A c \in DOMAIN conversations' :
             conversations'[c].conversation_phase = "awaiting_confirmation" =>
                 /\ conversations'[c].selected_slot # None
                 /\ \E i \in 1..Len(conversations'[c].available_slots) :
                       conversations'[c].available_slots[i] = conversations'[c].selected_slot
       /\ TurnIs("confirm_booking") =>
             /\ conversations["a"].conversation_phase = "awaiting_confirmation"
             /\ conversations["a"].selected_slot # None]_vars

\* the first of the ten slots listed for next week is selected and awaits
\* confirmation
C34Witness ==
    /\ TurnWas("select_slot") /\ debug.message = "1"
    /\ conversations["a"].conversation_phase = "awaiting_confirmation"
    /\ Len(conversations["a"].available_slots) = 10
    /\ conversations["a"].selected_slot = conversations["a"].available_slots[1]
    /\ conversations["a"].extracted_info["date_preference"] = "next_week"

\* C35: a session in phase booking_complete lists no slots, has no slot
\* selected and has booking_confirmed true; and every turn that meets the phase
\* booking_complete leaves it, for awaiting_slot_selection or for initial.
CompleteIsClearedAndLeft ==
    [][/\ \A c \in DOMAIN conversations' :
             conversations'[c].conversation_phase = "booking_complete" =>
                 /\ conversations'[c].available_slots = <<>>
                 /\ conversations'[c].selected_slot = None
                 /\ conversations'[c].booking_confirmed
       /\ (TurnIs(debug'.intent) /\ debug'.phase = "booking_complete") =>
             /\ conversations["a"].conversation_phase = "booking_complete"
             /\ conversations'["a"].conversation_phase
                    \in {"awaiting_slot_selection", "initial"}]_vars

\* a booking request met the phase booking_complete and left the session
\* awaiting a selection
C35Witness ==
    /\ TurnWas("book_appointment")
    /\ debug.phase = "booking_complete"
    /\ conversations["a"].conversation_phase = "awaiting_slot_selection"
    /\ conversations["a"].booking_confirmed
    /\ Len(appointments) >= 3

\* C36: a selection is booked at most once: a turn appends an appointment only
\* when it meets a selected slot in phase awaiting_confirmation, it leaves no
\* slot selected and the phase booking_complete, and a "yes" that meets no
\* selected slot appends nothing.
SelectionBookedAtMostOnce ==
    [][/\ (TurnIs(debug'.intent) /\ appointments' # appointments) =>
             /\ Session(conversations, "a").selected_slot # None
             /\ Session(conversations, "a").conversation_phase = "awaiting_confirmation"
             /\ Len(appointments') = Len(appointments) + 1
             /\ conversations'["a"].selected_slot = None
             /\ conversations'["a"].conversation_phase = "booking_complete"
       /\ (/\ TurnIs(debug'.intent) /\ debug'.message = "yes"
           /\ \/ Session(conversations, "a").selected_slot = None
              \/ Session(conversations, "a").conversation_phase # "awaiting_confirmation")
          => appointments' = appointments]_vars

\* "yes" was repeated after the booking and appended nothing
C36Witness ==
    /\ TurnWas("general_inquiry")
    /\ debug.message = "yes" /\ debug.phase = "booking_complete"
    /\ conversations["a"].booking_confirmed
    /\ conversations["a"].selected_slot = None
    /\ Len(appointments) = 3
    /\ appointments[3].title = "Scheduled Meeting"

\* C37: the appointment list is changed only by a cancellation that finds its
\* appointment and by a turn understood as a confirmation that meets a selected
\* slot; every other turn leaves it as it was.
OnlyConfirmationAndCancelChangeList ==
    [][appointments' # appointments =>
          \/ reply'.kind = "cancel" /\ reply'.status = 200
          \/ /\ TurnIs("confirm_booking")
             /\ Session(conversations, "a").selected_slot # None]_vars

\* a booking was appended and the first appointment was then cancelled
C37Witness ==
    /\ reply.kind = "cancel" /\ reply.status = 200
    /\ reply.appointment.id = "1"
    /\ Len(appointments) = 2
    /\ appointments[1].id = "2" /\ appointments[2].id = "3"
    /\ conversations["a"].conversation_phase = "booking_complete"

\* the text is a numbered slot listing
IsListing(text) ==
    /\ Len(text) >= Len("I found some available time slots")
    /\ SubSeq(text, 1, Len("I found some available time slots"))
           = "I found some available time slots"

\* the last numbered slot listing the assistant sent in a history, "" when none
LastListing(messages) ==
    LET sent == {k \in 1..Len(messages) :
                    messages[k].role = "ai" /\ IsListing(messages[k].content)}
    IN IF sent = {} THEN ""
       ELSE messages[CHOOSE k \in sent : \A other \in sent : other <= k].content

\* C38: a number typed in phase awaiting_slot_selection that selects a slot
\* selects the slot printed under that number in the last numbered listing sent
\* to the conversation, and that listing numbers the slots the session lists,
\* in their order.
SelectionIsTheItemListed ==
    [][(/\ TurnIs("select_slot")
        /\ NumberTyped(debug'.message) >= 1
        /\ NumberTyped(debug'.message) <= Len(conversations["a"].available_slots)) =>
          LET listing == LastListing(conversations["a"].messages)
              available_slots == conversations["a"].available_slots
              item(i) == "\n" \o (IF i < 10 THEN <<"1", "2", "3", "4", "5",
                                                  "6", "7", "8", "9">>[i]
                                            ELSE "10")
                              \o ". " \o available_slots[i].formatted \o "\n"
          IN /\ conversations'["a"].selected_slot # None
             /\ Contains(listing,
                    "\n" \o debug'.message \o ". "
                         \o conversations'["a"].selected_slot.formatted \o "\n")
             /\ \A i \in 1..Len(available_slots) : Contains(listing, item(i))
             /\ ~Contains(listing, "\n" \o (IF Len(available_slots) < 9
                                           THEN <<"2", "3", "4", "5", "6", "7",
                                                  "8", "9">>[Len(available_slots)]
                                           ELSE IF Len(available_slots) = 9 THEN "10"
                                           ELSE "11") \o ". ")]_vars

\* after a listing for tomorrow and a later one for next week, "9" selected the
\* ninth slot of the later listing
C38Witness ==
    /\ TurnWas("select_slot") /\ debug.message = "9"
    /\ Len(conversations["a"].messages) = 6
    /\ IsListing(conversations["a"].messages[2].content)
    /\ IsListing(conversations["a"].messages[4].content)
    /\ conversations["a"].messages[2].content # conversations["a"].messages[4].content
    /\ conversations["a"].selected_slot = conversations["a"].available_slots[9]
    /\ Contains(conversations["a"].messages[4].content,
                "\n9. " \o conversations["a"].selected_slot.formatted \o "\n")

\* the preferences of a session with its time_preference and its purpose set
\* anew, or removed when given as ""
WithTimeAndPurpose(extracted_info, time_preference, purpose) ==
    [k \in ((DOMAIN extracted_info) \ {"time_preference", "purpose"})
               \cup (IF time_preference = "" THEN {} ELSE {"time_preference"})
               \cup (IF purpose = "" THEN {} ELSE {"purpose"}) |->
        IF k = "time_preference" THEN time_preference
        ELSE IF k = "purpose" THEN purpose
        ELSE extracted_info[k]]

\* C39: the slots a lookup stores depend on the stored date preference, the
\* current day and the appointment list only: a session that differs from the
\* one looked up for in time_preference and purpose alone gets the same slots.
LookupIgnoresTimeAndPurpose ==
    (/\ probe.fn = "invoke" /\ probe.done
     /\ probe.out.state.user_intent \in {"book_appointment", "check_availability"})
    => \A time_preference \in {"", "morning", "evening", "3 pm"} :
          \A purpose \in {"", "meeting", "call", "demo"} :
              check_availability(
                  [probe.out.state EXCEPT !.extracted_info =
                      WithTimeAndPurpose(@, time_preference, purpose)],
                  appointments, now).available_slots
                  = probe.out.state.available_slots

\* a meeting asked for tomorrow was offered the six free hours of the day, and
\* a demo asked for the morning would be offered the same
C39Witness ==
    /\ probe.fn = "invoke" /\ probe.done
    /\ probe.out.state.user_intent = "book_appointment"
    /\ probe.out.state.extracted_info["purpose"] = "meeting"
    /\ probe.out.state.extracted_info["date_preference"] = "tomorrow"
    /\ Len(probe.out.state.available_slots) = 6
    /\ check_availability(
           [probe.out.state EXCEPT !.extracted_info =
               WithTimeAndPurpose(@, "morning", "demo")],
           appointments, now).available_slots
           = probe.out.state.available_slots


============================================================================
